---- MODULE Spec2Model ----
(***************************************************************************)
(* Model of src/orders_etl.py: the orders ETL script (bronze CSV -> silver *)
(* parquet -> gold daily restaurant metrics).                              *)
(*                                                                         *)
(* Conventions.                                                            *)
(*  - A nullable column value is a sequence of length <= 1: NULL == <<>>,  *)
(*    and Some(v) == <<v>>.  A CSV text field is a sequence of one-        *)
(*    character strings; the empty field is read as null, and is <<>>.     *)
(*  - A DataFrame is a sequence of rows (records).                         *)
(*  - A TimestampType value is [day, sod]: day number and second of day.   *)
(*    The timestamp text is "d HH:mm:ss" with the calendar date reduced to *)
(*    a one-digit day number.                                              *)
(*  - A double is an exact decimal: order_value in tenths, ratios as       *)
(*    reduced fractions [n, d].                                            *)
(*  - IntegerType arithmetic is 32-bit two's complement (non-ANSI mode:    *)
(*    the script relies on permissive casts, which ANSI mode rejects).     *)
(***************************************************************************)
EXTENDS Integers, Sequences, FiniteSets, TLC

VARIABLES
  pc,                  \* the statement the script is at
  run,                 \* number of the current run of the script
  bronzeOrders,        \* rows of bronze/orders/*/*.csv
  bronzeRestaurants,   \* rows of bronze/restaurants/*.csv
  orders,              \* DataFrame `orders`
  restaurants,         \* DataFrame `restaurants`
  silverOrders,        \* silver/orders: partition dt -> rows
  silverRestaurants,   \* silver/restaurants: rows
  orders_silver,       \* DataFrame `orders_silver`
  restaurants_silver,  \* DataFrame `restaurants_silver`
  orders_enriched,     \* DataFrame `orders_enriched`
  daily_rest_metrics,  \* DataFrame `daily_rest_metrics`
  goldMetrics,         \* gold/daily_restaurant_metrics: partition dt -> rows
  pending              \* partitions of the running write not yet published

vars == <<pc, run, bronzeOrders, bronzeRestaurants, orders, restaurants,
          silverOrders, silverRestaurants, orders_silver, restaurants_silver,
          orders_enriched, daily_rest_metrics, goldMetrics, pending>>

\* ------------------------------------------------------------ bounds
MaxOrders == 2
MaxRuns == 2

\* ------------------------------------------------------------ values
NULL == <<>>
Some(v) == <<v>>
IsNull(x) == x = <<>>
Val(x) == x[1]

SecsPerMin == 60
SecsPerHour == 3600
SecsPerDay == 86400
MaxInt == 2147483647
MinInt == -MaxInt - 1

Digit == {"0", "1", "2", "3", "4", "5", "6", "7", "8", "9"}
DigitVal(c) ==
  CASE c = "0" -> 0 [] c = "1" -> 1 [] c = "2" -> 2 [] c = "3" -> 3
    [] c = "4" -> 4 [] c = "5" -> 5 [] c = "6" -> 6 [] c = "7" -> 7
    [] c = "8" -> 8 [] c = "9" -> 9

\* ------------------------------------------------------------ casts
\* String -> int: digits accumulated as a negative number, null on a
\* non-digit or when the value leaves the 32-bit range.
RECURSIVE NegDigits(_, _)
NegDigits(s, acc) ==
  IF s = <<>> THEN Some(acc)
  ELSE IF Head(s) \notin Digit THEN NULL
  ELSE LET d == DigitVal(Head(s)) IN
       IF acc < (MinInt + d + 9) \div 10 THEN NULL
       ELSE NegDigits(Tail(s), acc * 10 - d)

CastInt(text) ==
  IF text = <<>> THEN NULL
  ELSE LET neg  == Head(text) = "-"
           body == IF neg THEN Tail(text) ELSE text
           r    == IF body = <<>> THEN NULL ELSE NegDigits(body, 0)
       IN IF IsNull(r) THEN NULL
          ELSE IF neg THEN r
          ELSE IF Val(r) = MinInt THEN NULL
          ELSE Some(-Val(r))

\* String -> double for the decimal texts "ddd" and "ddd.d": the value in
\* tenths.  Any other text of the input alphabet is not a number: null.
RECURSIVE DigitsValue(_, _)
DigitsValue(s, acc) ==
  IF s = <<>> THEN Some(acc)
  ELSE IF Head(s) \notin Digit THEN NULL
  ELSE DigitsValue(Tail(s), acc * 10 + DigitVal(Head(s)))

CastDouble(text) ==
  LET n == Len(text) IN
  IF n = 0 THEN NULL
  ELSE IF n >= 3 /\ text[n - 1] = "."
       THEN LET w == DigitsValue(SubSeq(text, 1, n - 2), 0) IN
            IF IsNull(w) \/ text[n] \notin Digit THEN NULL
            ELSE Some(Val(w) * 10 + DigitVal(text[n]))
       ELSE LET w == DigitsValue(text, 0) IN
            IF IsNull(w) THEN NULL ELSE Some(Val(w) * 10)

\* to_timestamp on "d HH:mm:ss": null unless every field parses and is in
\* range.
TwoDigits(text, i) == DigitVal(text[i]) * 10 + DigitVal(text[i + 1])

to_timestamp(text) ==
  IF /\ Len(text) = 10
     /\ \A i \in {1, 3, 4, 6, 7, 9, 10} : text[i] \in Digit
     /\ text[2] = " " /\ text[5] = ":" /\ text[8] = ":"
     /\ TwoDigits(text, 3) <= 23
     /\ TwoDigits(text, 6) <= 59
     /\ TwoDigits(text, 9) <= 59
  THEN Some([day |-> DigitVal(text[1]),
             sod |-> TwoDigits(text, 3) * SecsPerHour
                       + TwoDigits(text, 6) * SecsPerMin
                       + TwoDigits(text, 9)])
  ELSE NULL

\* unix_timestamp: seconds since the epoch, null for a null timestamp.
unix_timestamp(ts) ==
  IF IsNull(ts) THEN NULL ELSE Some(Val(ts).day * SecsPerDay + Val(ts).sod)

\* cast("date"): the calendar date of the timestamp.
CastDate(ts) == IF IsNull(ts) THEN NULL ELSE Some(Val(ts).day)

\* --------------------------------------------- 32-bit integer arithmetic
Add32(a, b) ==
  IF a >= 0 /\ b >= 0 /\ a > MaxInt - b
    THEN (a - MaxInt - 1) + (b - MaxInt - 1)
  ELSE IF a < 0 /\ b < 0 /\ a < MinInt - b
    THEN (a + MaxInt + 1) + (b + MaxInt + 1)
  ELSE a + b

\* p * 60 in IntegerType: 60 p = 32 p + 16 p + 8 p + 4 p, every sum wrapped.
Mul60(p) ==
  LET p2  == Add32(p, p)
      p4  == Add32(p2, p2)
      p8  == Add32(p4, p4)
      p16 == Add32(p8, p8)
      p32 == Add32(p16, p16)
  IN Add32(Add32(p32, p16), Add32(p8, p4))

\* ------------------------------------------- three-valued column logic
EqCol(a, b) == IF IsNull(a) \/ IsNull(b) THEN NULL ELSE Some(Val(a) = Val(b))
GtCol(a, b) == IF IsNull(a) \/ IsNull(b) THEN NULL ELSE Some(Val(a) > Val(b))
SubCol(a, b) == IF IsNull(a) \/ IsNull(b) THEN NULL ELSE Some(Val(a) - Val(b))
MulCol60(a) == IF IsNull(a) THEN NULL ELSE Some(Mul60(Val(a)))
AndCol(a, b) ==
  IF a = Some(FALSE) \/ b = Some(FALSE) THEN Some(FALSE)
  ELSE IF IsNull(a) \/ IsNull(b) THEN NULL
  ELSE Some(TRUE)
When(cond, then, otherwise) == IF cond = Some(TRUE) THEN then ELSE otherwise

\* ------------------------------------------------------------ rationals
RECURSIVE GCD(_, _)
GCD(a, b) == IF b = 0 THEN a ELSE GCD(b, a % b)
Abs(x) == IF x < 0 THEN -x ELSE x
\* The double n / d (d > 0) as a reduced fraction.
Frac(n, d) ==
  LET g == GCD(Abs(n), d) IN [n |-> n \div g, d |-> d \div g]
RatAdd(a, b) == Frac(a.n * b.d + b.n * a.d, a.d * b.d)
RatDivInt(a, k) == Frac(a.n, a.d * k)
\* Column division: null for a null operand or a zero divisor.
DivCol(a, b) ==
  IF IsNull(a) \/ IsNull(b) THEN NULL
  ELSE IF Val(b) = 0 THEN NULL
  ELSE Some(Frac(Val(a), Val(b)))

\* --------------------------------------------------- Ingest & Normalize
DELIVERED == Some("DELIVERED")

late_delivery(status, order_ts, delivered_ts, promised_mins) ==
  When(AndCol(EqCol(status, DELIVERED),
              GtCol(SubCol(unix_timestamp(delivered_ts),
                           unix_timestamp(order_ts)),
                    MulCol60(promised_mins))),
       1, 0)

NormalizeRow(raw) ==
  LET ots == to_timestamp(raw.order_ts)
      dts == to_timestamp(raw.delivered_ts)
      val == CastDouble(raw.order_value)
      pm  == CastInt(raw.promised_mins)
  IN [order_ts      |-> ots,
      delivered_ts  |-> dts,
      order_value   |-> val,
      promised_mins |-> pm,
      status        |-> raw.status,
      restaurant_id |-> raw.restaurant_id,
      city          |-> raw.city,
      late_delivery |-> late_delivery(raw.status, ots, dts, pm),
      dt            |-> CastDate(ots)]

\* Faulty variant of Normalize: the rows whose order_ts does not parse are dropped.
NormalizeDropMalformed(df) ==
  LET Parses(raw) == ~IsNull(to_timestamp(raw.order_ts))
      kept == SelectSeq(df, Parses)
  IN [i \in 1..Len(kept) |-> NormalizeRow(kept[i])]

Normalize(df) == [i \in 1..Len(df) |-> NormalizeRow(df[i])]

\* ------------------------------------------------- partitioned parquet
EmptyStore == [p \in {} |-> <<>>]
DropDt(row) == [f \in DOMAIN row \ {"dt"} |-> row[f]]
WithDt(row, p) == [f \in DOMAIN row \cup {"dt"} |->
                     IF f = "dt" THEN p ELSE row[f]]

\* The files partitionBy("dt") writes: one directory per dt value (the null
\* value has a directory of its own); the rows in it lose the dt column.
PartitionRows(df, p) ==
  LET InP(r) == r.dt = p
      sel == SelectSeq(df, InP)
  IN [i \in 1..Len(sel) |-> DropDt(sel[i])]
PartitionBy(df) ==
  [p \in {df[i].dt : i \in 1..Len(df)} |-> PartitionRows(df, p)]

\* Directory listing order: dated partitions in date order, the null
\* partition last.
KeyLess(a, b) ==
  IF IsNull(b) THEN ~IsNull(a) ELSE ~IsNull(a) /\ Val(a) < Val(b)
MinKey(S) == CHOOSE k \in S : \A j \in S \ {k} : KeyLess(k, j)

\* spark.read.parquet of a partitioned directory: every row of every
\* partition, with dt taken from the directory name.
RECURSIVE ReadParts(_, _)
ReadParts(store, keys) ==
  IF keys = {} THEN <<>>
  ELSE LET p == MinKey(keys)
       IN [i \in 1..Len(store[p]) |-> WithDt(store[p][i], p)]
            \o ReadParts(store, keys \ {p})
ReadPartitioned(store) == ReadParts(store, DOMAIN store)

\* ---------------------------------------------------------------- Enrich
NoRestaurant == [restaurant_id |-> NULL, name |-> NULL, cuisine |-> NULL]
JoinRow(o, r) ==
  [order_ts |-> o.order_ts, delivered_ts |-> o.delivered_ts,
   order_value |-> o.order_value, promised_mins |-> o.promised_mins,
   status |-> o.status, restaurant_id |-> o.restaurant_id, city |-> o.city,
   late_delivery |-> o.late_delivery, dt |-> o.dt,
   r_restaurant_id |-> r.restaurant_id, name |-> r.name,
   cuisine |-> r.cuisine]

\* Faulty variant of Matches: at most one restaurant row per order.
MatchesFirstOnly(o, rs) ==
  LET On(r) == EqCol(o.restaurant_id, r.restaurant_id) = Some(TRUE)
      m == SelectSeq(rs, On)
  IN IF m = <<>> THEN <<>> ELSE <<Head(m)>>

Matches(o, rs) ==
  LET On(r) == EqCol(o.restaurant_id, r.restaurant_id) = Some(TRUE)
  IN SelectSeq(rs, On)

\* Faulty variant of JoinOne: an inner join.
JoinOneInner(o, rs) ==
  LET m == Matches(o, rs) IN [i \in 1..Len(m) |-> JoinRow(o, m[i])]

JoinOne(o, rs) ==
  LET m == Matches(o, rs)
  IN IF m = <<>> THEN <<JoinRow(o, NoRestaurant)>>
     ELSE [i \in 1..Len(m) |-> JoinRow(o, m[i])]

RECURSIVE LeftJoin(_, _)
LeftJoin(os, rs) ==
  IF os = <<>> THEN <<>>
  ELSE JoinOne(Head(os), rs) \o LeftJoin(Tail(os), rs)

\* ------------------------------------------------------------- Aggregate
GroupKey(e) == <<e.dt, e.restaurant_id, e.name, e.cuisine, e.city>>

\* Faulty variant of WhereDelivered: the filter is left out.
WhereAnyStatus(df) == df

\* where(col("status") == "DELIVERED"): the rows whose test is true.
WhereDelivered(df) ==
  LET Keep(e) == EqCol(e.status, DELIVERED) = Some(TRUE)
  IN SelectSeq(df, Keep)

\* The grouping keys of df, each once, in order of first appearance.
RECURSIVE DistinctKeys(_, _)
DistinctKeys(df, seen) ==
  IF df = <<>> THEN <<>>
  ELSE LET k == GroupKey(Head(df)) IN
       IF k \in seen THEN DistinctKeys(Tail(df), seen)
       ELSE <<k>> \o DistinctKeys(Tail(df), seen \cup {k})

Group(df, k) ==
  LET InGroup(e) == GroupKey(e) = k
  IN SelectSeq(df, InGroup)

NonNull(xs) ==
  LET Present(x) == ~IsNull(x) IN SelectSeq(xs, Present)

\* Faulty variant of CountRows: count("order_value"), which skips null values.
CountOrderValues(g) == Len(NonNull([i \in 1..Len(g) |-> g[i].order_value]))

\* count(lit(1)): the number of rows.
CountRows(g) == Len(g)

\* sum over a nullable numeric column: nulls are skipped, and the sum of no
\* value is null.
RECURSIVE SumCol(_)
SumCol(xs) ==
  IF xs = <<>> THEN NULL
  ELSE LET rest == SumCol(Tail(xs)) IN
       IF IsNull(Head(xs)) THEN rest
       ELSE IF IsNull(rest) THEN Head(xs)
       ELSE Some(Val(Head(xs)) + Val(rest))

\* (unix_timestamp(delivered_ts) - unix_timestamp(order_ts)) / 60.0
DeliveryMins(e) ==
  LET secs == SubCol(unix_timestamp(e.delivered_ts),
                     unix_timestamp(e.order_ts))
  IN IF IsNull(secs) THEN NULL ELSE Some(Frac(Val(secs), SecsPerMin))

RECURSIVE RatSum(_)
RatSum(xs) ==
  IF xs = <<>> THEN Frac(0, 1) ELSE RatAdd(Val(Head(xs)), RatSum(Tail(xs)))

\* avg over a nullable column: the mean of the non-null values, null when
\* there is none.
\* Faulty variant of AvgDenominator: the null values are counted too.
AvgDenominatorAllRows(xs) == Len(xs)

AvgDenominator(xs) == Len(NonNull(xs))
AvgCol(xs) ==
  IF NonNull(xs) = <<>> THEN NULL
  ELSE Some(RatDivInt(RatSum(NonNull(xs)), AvgDenominator(xs)))

MetricRow(k, g) ==
  LET n    == CountRows(g)
      late == SumCol([i \in 1..Len(g) |-> Some(g[i].late_delivery)])
  IN [dt |-> k[1], restaurant_id |-> k[2], name |-> k[3],
      cuisine |-> k[4], city |-> k[5],
      orders_delivered  |-> n,
      gmv               |-> SumCol([i \in 1..Len(g) |-> g[i].order_value]),
      avg_delivery_mins |-> AvgCol([i \in 1..Len(g) |-> DeliveryMins(g[i])]),
      late_count        |-> late,
      late_rate         |-> DivCol(late, Some(n))]

Aggregate(enriched) ==
  LET delivered == WhereDelivered(enriched)
      keys      == DistinctKeys(delivered, {})
  IN [i \in 1..Len(keys) |-> MetricRow(keys[i], Group(delivered, keys[i]))]

\* ---------------------------------------------------------------- inputs
T_1200  == <<"1", " ", "1", "2", ":", "0", "0", ":", "0", "0">>
T_1201  == <<"1", " ", "1", "2", ":", "0", "1", ":", "0", "0">>
T_1230  == <<"1", " ", "1", "2", ":", "3", "0", ":", "0", "0">>
T_1231  == <<"1", " ", "1", "2", ":", "3", "1", ":", "0", "0">>
T2_0900 == <<"2", " ", "0", "9", ":", "0", "0", ":", "0", "0">>
T2_0945 == <<"2", " ", "0", "9", ":", "4", "5", ":", "0", "0">>
T_Bad   == <<"1", " ", "2", "5", ":", "0", "0", ":", "0", "0">>

RawOrder(ots, dts, val, pm, st, rid, c) ==
  [order_ts |-> ots, delivered_ts |-> dts, order_value |-> val,
   promised_mins |-> pm, status |-> st, restaurant_id |-> rid, city |-> c]

\* The bronze order rows the model draws from.
RawOrderRows ==
  { \* delivered one minute past the promise
    RawOrder(T_1200, T_1231, <<"1", "0", ".", "0">>, <<"3", "0">>,
             DELIVERED, Some("r1"), Some("c1")),
    \* delivered exactly at the promise
    RawOrder(T_1200, T_1230, <<"2", "0", ".", "0">>, <<"3", "0">>,
             DELIVERED, Some("r1"), Some("c1")),
    \* not delivered, with a delivered_ts past the promise
    RawOrder(T_1200, T_1231, <<"1", "0", ".", "0">>, <<"3", "0">>,
             Some("CANCELLED"), Some("r1"), Some("c1")),
    \* delivered, delivered_ts and order_value empty
    RawOrder(T_1200, <<>>, <<>>, <<"3", "0">>,
             DELIVERED, Some("r1"), Some("c1")),
    \* delivered, unknown restaurant, nothing parses
    RawOrder(T_Bad, <<"s", "o", "o", "n">>, <<"x">>, <<"3", "0", "m">>,
             DELIVERED, Some("r9"), Some("c1")),
    \* delivered on day 2, no restaurant_id
    RawOrder(T2_0900, T2_0945, <<"5", ".", "5">>, <<"3", "0">>,
             DELIVERED, NULL, Some("c2")),
    \* still pending: no delivered_ts, no promised_mins
    RawOrder(T_1200, <<>>, <<"2", "0", ".", "0">>, <<>>,
             Some("PENDING"), Some("r2"), Some("c1")),
    \* delivered after one minute, promised_mins * 60 beyond 32 bits
    RawOrder(T_1200, T_1201, <<"1", "0", ".", "0">>,
             <<"3", "5", "7", "9", "1", "3", "9", "5">>,
             DELIVERED, Some("r1"), Some("c1")) }

Restaurant(rid, n, c) == [restaurant_id |-> rid, name |-> n, cuisine |-> c]
R_Alfa  == Restaurant(Some("r1"), Some("Alfa"), Some("pizza"))
R_Beta  == Restaurant(Some("r1"), Some("Beta"), Some("sushi"))
R_Gamma == Restaurant(Some("r2"), Some("Gamma"), Some("pizza"))

\* The bronze restaurant files the model draws from: none, one, two with
\* distinct identifiers, two with the same identifier, one row twice.
RestaurantFiles ==
  { <<>>, <<R_Alfa>>, <<R_Alfa, R_Gamma>>, <<R_Alfa, R_Beta>>,
    <<R_Alfa, R_Alfa>> }

OrderFiles == UNION { [1..n -> RawOrderRows] : n \in 1..MaxOrders }

\* ----------------------------------------------------------------- state
Init ==
  /\ pc = "read_bronze"
  /\ run = 1
  /\ bronzeOrders \in OrderFiles
  /\ bronzeRestaurants \in RestaurantFiles
  /\ orders = <<>>
  /\ restaurants = <<>>
  /\ silverOrders = EmptyStore
  /\ silverRestaurants = <<>>
  /\ orders_silver = <<>>
  /\ restaurants_silver = <<>>
  /\ orders_enriched = <<>>
  /\ daily_rest_metrics = <<>>
  /\ goldMetrics = EmptyStore
  /\ pending = {}

\* Faulty variant of OverwriteDelete: mode("append"), the old files stay.
OverwriteKeep(store) == store
\* Faulty variant of OverwriteDeleteFile: the old file stays until the new one is
\* in place.
OverwriteKeepFile(rows) == rows

\* mode("overwrite"): what is left of the target when the write starts.
OverwriteDelete(store) == EmptyStore
OverwriteDeleteFile(rows) == <<>>

\* One partition directory of the write moved into the target.
AddFiles(store, target, p) ==
  [q \in DOMAIN store \cup {p} |->
     IF q = p
       THEN (IF p \in DOMAIN store THEN store[p] ELSE <<>>) \o target[p]
       ELSE store[q]]

\* lines 12-13
ReadBronze ==
  /\ pc = "read_bronze"
  /\ orders' = bronzeOrders
  /\ restaurants' = bronzeRestaurants
  /\ pc' = "normalize"
  /\ UNCHANGED <<run, bronzeOrders, bronzeRestaurants, silverOrders,
                 silverRestaurants, orders_silver, restaurants_silver,
                 orders_enriched, daily_rest_metrics, goldMetrics, pending>>

\* lines 15-25
NormalizeOrders ==
  /\ pc = "normalize"
  /\ orders' = Normalize(orders)
  /\ pc' = "write_silver_orders"
  /\ UNCHANGED <<run, bronzeOrders, bronzeRestaurants, restaurants,
                 silverOrders, silverRestaurants, orders_silver,
                 restaurants_silver, orders_enriched, daily_rest_metrics,
                 goldMetrics, pending>>

\* line 27, first the old content goes ...
DeleteSilverOrders ==
  /\ pc = "write_silver_orders"
  /\ silverOrders' = OverwriteDelete(silverOrders)
  /\ pending' = DOMAIN PartitionBy(orders)
  /\ pc' = IF pending' = {} THEN "write_silver_restaurants"
           ELSE "commit_silver_orders"
  /\ UNCHANGED <<run, bronzeOrders, bronzeRestaurants, orders, restaurants,
                 silverRestaurants, orders_silver, restaurants_silver,
                 orders_enriched, daily_rest_metrics, goldMetrics>>

\* Faulty variant of SilverOrdersCommitted: the script goes on after the first
\* partition.
SilverOrdersCommittedEarly(left) == "write_silver_restaurants"

\* ... then the partition directories appear one by one.
SilverOrdersCommitted(left) ==
  IF left = {} THEN "write_silver_restaurants" ELSE "commit_silver_orders"
PublishSilverOrders ==
  /\ pc = "commit_silver_orders"
  /\ \E p \in pending :
       /\ silverOrders' = AddFiles(silverOrders, PartitionBy(orders), p)
       /\ pending' = pending \ {p}
       /\ pc' = SilverOrdersCommitted(pending \ {p})
  /\ UNCHANGED <<run, bronzeOrders, bronzeRestaurants, orders, restaurants,
                 silverRestaurants, orders_silver, restaurants_silver,
                 orders_enriched, daily_rest_metrics, goldMetrics>>

\* line 28
DeleteSilverRestaurants ==
  /\ pc = "write_silver_restaurants"
  /\ silverRestaurants' = OverwriteDeleteFile(silverRestaurants)
  /\ pc' = "commit_silver_restaurants"
  /\ UNCHANGED <<run, bronzeOrders, bronzeRestaurants, orders, restaurants,
                 silverOrders, orders_silver, restaurants_silver,
                 orders_enriched, daily_rest_metrics, goldMetrics, pending>>

PublishSilverRestaurants ==
  /\ pc = "commit_silver_restaurants"
  /\ silverRestaurants' = silverRestaurants \o restaurants
  /\ pc' = "read_silver"
  /\ UNCHANGED <<run, bronzeOrders, bronzeRestaurants, orders, restaurants,
                 silverOrders, orders_silver, restaurants_silver,
                 orders_enriched, daily_rest_metrics, goldMetrics, pending>>

\* lines 30-31
ReadSilver ==
  /\ pc = "read_silver"
  /\ orders_silver' = ReadPartitioned(silverOrders)
  /\ restaurants_silver' = silverRestaurants
  /\ pc' = "enrich"
  /\ UNCHANGED <<run, bronzeOrders, bronzeRestaurants, orders, restaurants,
                 silverOrders, silverRestaurants, orders_enriched,
                 daily_rest_metrics, goldMetrics, pending>>

\* lines 33-35
Enrich ==
  /\ pc = "enrich"
  /\ orders_enriched' = LeftJoin(orders_silver, restaurants_silver)
  /\ pc' = "aggregate"
  /\ UNCHANGED <<run, bronzeOrders, bronzeRestaurants, orders, restaurants,
                 silverOrders, silverRestaurants, orders_silver,
                 restaurants_silver, daily_rest_metrics, goldMetrics, pending>>

\* lines 37-47
AggregateMetrics ==
  /\ pc = "aggregate"
  /\ daily_rest_metrics' = Aggregate(orders_enriched)
  /\ pc' = "write_gold"
  /\ UNCHANGED <<run, bronzeOrders, bronzeRestaurants, orders, restaurants,
                 silverOrders, silverRestaurants, orders_silver,
                 restaurants_silver, orders_enriched, goldMetrics, pending>>

\* line 49
DeleteGold ==
  /\ pc = "write_gold"
  /\ goldMetrics' = OverwriteDelete(goldMetrics)
  /\ pending' = DOMAIN PartitionBy(daily_rest_metrics)
  /\ pc' = IF pending' = {} THEN "done" ELSE "commit_gold"
  /\ UNCHANGED <<run, bronzeOrders, bronzeRestaurants, orders, restaurants,
                 silverOrders, silverRestaurants, orders_silver,
                 restaurants_silver, orders_enriched, daily_rest_metrics>>

PublishGold ==
  /\ pc = "commit_gold"
  /\ \E p \in pending :
       /\ goldMetrics' = AddFiles(goldMetrics, PartitionBy(daily_rest_metrics), p)
       /\ pending' = pending \ {p}
       /\ pc' = IF pending \ {p} = {} THEN "done" ELSE "commit_gold"
  /\ UNCHANGED <<run, bronzeOrders, bronzeRestaurants, orders, restaurants,
                 silverOrders, silverRestaurants, orders_silver,
                 restaurants_silver, orders_enriched, daily_rest_metrics>>

\* Between two runs a new file of one order row lands under bronze/orders.
Upstream ==
  /\ pc = "done"
  /\ run < MaxRuns
  /\ Len(bronzeOrders) < MaxOrders
  /\ \E r \in RawOrderRows : bronzeOrders' = Append(bronzeOrders, r)
  /\ UNCHANGED <<pc, run, bronzeRestaurants, orders, restaurants,
                 silverOrders, silverRestaurants, orders_silver,
                 restaurants_silver, orders_enriched, daily_rest_metrics,
                 goldMetrics, pending>>

\* The script is run again: a new session, the stores as the last run left
\* them.
Rerun ==
  /\ pc = "done"
  /\ run < MaxRuns
  /\ run' = run + 1
  /\ pc' = "read_bronze"
  /\ orders' = <<>>
  /\ restaurants' = <<>>
  /\ orders_silver' = <<>>
  /\ restaurants_silver' = <<>>
  /\ orders_enriched' = <<>>
  /\ daily_rest_metrics' = <<>>
  /\ UNCHANGED <<bronzeOrders, bronzeRestaurants, silverOrders,
                 silverRestaurants, goldMetrics, pending>>

Next ==
  \/ ReadBronze
  \/ NormalizeOrders
  \/ DeleteSilverOrders
  \/ PublishSilverOrders
  \/ DeleteSilverRestaurants
  \/ PublishSilverRestaurants
  \/ ReadSilver
  \/ Enrich
  \/ AggregateMetrics
  \/ DeleteGold
  \/ PublishGold
  \/ Upstream
  \/ Rerun

Spec == Init /\ [][Next]_vars

\* ------------------------------------------------------------ properties
Normalized == pc \notin {"read_bronze", "normalize"}
Enriched == pc \in {"aggregate", "write_gold", "commit_gold", "done"}
Aggregated == pc \in {"write_gold", "commit_gold", "done"}

Secs(ts) == Val(ts).day * SecsPerDay + Val(ts).sod
\* e > 60 * p over the integers, written without the product.
Exceeds(e, p) ==
  \/ e \div SecsPerMin > p
  \/ e \div SecsPerMin = p /\ e % SecsPerMin > 0

LateByRule(r) ==
  /\ r.status = Some("DELIVERED")
  /\ ~IsNull(r.delivered_ts) /\ ~IsNull(r.order_ts) /\ ~IsNull(r.promised_mins)
  /\ Exceeds(Secs(r.delivered_ts) - Secs(r.order_ts), Val(r.promised_mins))

\* C1: every normalized order row has late_delivery = 1 exactly when its
\* status is DELIVERED and delivered_ts - order_ts, in seconds, is strictly
\* greater than promised_mins * 60; it has late_delivery = 0 otherwise (also
\* when one of the three values is null).
C1_LateDeliveryRule ==
  Normalized =>
    \A i \in 1..Len(orders) :
      orders[i].late_delivery = IF LateByRule(orders[i]) THEN 1 ELSE 0

\* Every row of a partitioned store, dt restored.
StoredRows(store) == ReadPartitioned(store)
Idx(df) == 1..Len(df)

MetricBounds(m) ==
  /\ m.orders_delivered > 0
  /\ ~IsNull(m.late_count)
  /\ 0 <= Val(m.late_count) /\ Val(m.late_count) <= m.orders_delivered
  /\ ~IsNull(m.late_rate)
  /\ Val(m.late_rate).d > 0
  /\ 0 <= Val(m.late_rate).n /\ Val(m.late_rate).n <= Val(m.late_rate).d

\* C2: every row of daily_rest_metrics, and every row written to the gold
\* store, has orders_delivered > 0 and a late_rate that is a number (its
\* divisor is not zero) between 0 and 1, with 0 <= late_count <=
\* orders_delivered.
C2_MetricRowBounds ==
  /\ Aggregated =>
       \A i \in Idx(daily_rest_metrics) : MetricBounds(daily_rest_metrics[i])
  /\ \A p \in DOMAIN goldMetrics :
       \A i \in Idx(goldMetrics[p]) : MetricBounds(goldMetrics[p][i])

\* A gold row with some but not all of its orders late, in a run whose
\* input has a duplicate restaurant identifier or a null column.
C2_Witness ==
  /\ pc = "done"
  /\ \E p \in DOMAIN goldMetrics : \E i \in Idx(goldMetrics[p]) :
       /\ Val(goldMetrics[p][i].late_count) > 0
       /\ Val(goldMetrics[p][i].late_count) < goldMetrics[p][i].orders_delivered
       /\ IsNull(goldMetrics[p][i].gmv) \/ Len(bronzeRestaurants) = 2

\* The enriched rows with status DELIVERED that fall under the key of
\* metric row m.
KeyOf(m) == <<m.dt, m.restaurant_id, m.name, m.cuisine, m.city>>
DeliveredIdx ==
  {k \in Idx(orders_enriched) : orders_enriched[k].status = Some("DELIVERED")}
EKey(k) ==
  <<orders_enriched[k].dt, orders_enriched[k].restaurant_id,
    orders_enriched[k].name, orders_enriched[k].cuisine,
    orders_enriched[k].city>>
Members(key) == {k \in DeliveredIdx : EKey(k) = key}

RECURSIVE TotalLate(_)
TotalLate(S) ==
  IF S = {} THEN 0
  ELSE LET k == CHOOSE x \in S : TRUE
       IN orders_enriched[k].late_delivery + TotalLate(S \ {k})

RECURSIVE TotalValue(_)
TotalValue(S) ==
  IF S = {} THEN 0
  ELSE LET k == CHOOSE x \in S : TRUE
       IN Val(orders_enriched[k].order_value) + TotalValue(S \ {k})

RECURSIVE TotalSecs(_)
TotalSecs(S) ==
  IF S = {} THEN 0
  ELSE LET k == CHOOSE x \in S : TRUE
       IN Secs(orders_enriched[k].delivered_ts)
            - Secs(orders_enriched[k].order_ts) + TotalSecs(S \ {k})

Valued(S) == {k \in S : ~IsNull(orders_enriched[k].order_value)}
Timed(S) ==
  {k \in S : /\ ~IsNull(orders_enriched[k].delivered_ts)
             /\ ~IsNull(orders_enriched[k].order_ts)}

MeasuresOf(m) ==
  LET G == Members(KeyOf(m)) IN
  /\ G # {}
  /\ m.orders_delivered = Cardinality(G)
  /\ m.late_count = Some(TotalLate(G))
  /\ m.gmv = IF Valued(G) = {} THEN NULL ELSE Some(TotalValue(Valued(G)))
  /\ ~IsNull(m.late_rate)
  /\ Val(m.late_rate).n * Cardinality(G) = Val(m.late_rate).d * TotalLate(G)

\* C4: daily_rest_metrics has exactly one row for every grouping key (dt,
\* restaurant_id, name, cuisine, city) of an enriched row with status
\* DELIVERED and no other row; in that row orders_delivered is the number of
\* DELIVERED enriched rows with the key, gmv the sum of their order_value
\* (over the rows that have one, null when none has), late_count the sum of
\* their late_delivery and late_rate = late_count / orders_delivered.  Rows
\* of any other status are in no group.
C4_AggregateContract ==
  Aggregated =>
    /\ \A k \in DeliveredIdx :
         Cardinality({i \in Idx(daily_rest_metrics) :
                        KeyOf(daily_rest_metrics[i]) = EKey(k)}) = 1
    /\ \A i \in Idx(daily_rest_metrics) : MeasuresOf(daily_rest_metrics[i])
    /\ \A i, j \in Idx(daily_rest_metrics) :
         KeyOf(daily_rest_metrics[i]) = KeyOf(daily_rest_metrics[j]) => i = j

\* A delivered, late order of 10.0 and a cancelled order of the same day,
\* restaurant and city: one metric row, which counts the delivered one only.
C4_Witness ==
  /\ Aggregated
  /\ \E k \in Idx(orders_enriched) : \E i \in Idx(daily_rest_metrics) :
       /\ orders_enriched[k].status = Some("CANCELLED")
       /\ KeyOf(daily_rest_metrics[i]) = EKey(k)
       /\ daily_rest_metrics[i].orders_delivered = 1
       /\ daily_rest_metrics[i].gmv = Some(100)
       /\ daily_rest_metrics[i].late_count = Some(1)
       /\ daily_rest_metrics[i].late_rate = Some([n |-> 1, d |-> 1])

\* C8: in every metric row avg_delivery_mins is the mean, in minutes, of
\* delivered_ts - order_ts over the DELIVERED rows of the group that have
\* both timestamps; a row without one of them is counted in
\* orders_delivered and in neither the sum nor the divisor of the mean; and
\* the mean of a group in which no row has both is null.
C8_AvgSkipsNullDurations ==
  Aggregated =>
    \A i \in Idx(daily_rest_metrics) :
      LET m == daily_rest_metrics[i]
          G == Members(KeyOf(m))
          N == Timed(G)
      IN /\ m.orders_delivered = Cardinality(G)
         /\ N = {} => IsNull(m.avg_delivery_mins)
         /\ N # {} =>
              /\ ~IsNull(m.avg_delivery_mins)
              /\ Val(m.avg_delivery_mins).d > 0
              /\ Val(m.avg_delivery_mins).n * (SecsPerMin * Cardinality(N))
                   = Val(m.avg_delivery_mins).d * TotalSecs(N)

\* A group of two delivered orders, one without delivered_ts: the mean is
\* that of the other one alone.
C8_Witness ==
  /\ Aggregated
  /\ \E i \in Idx(daily_rest_metrics) :
       /\ daily_rest_metrics[i].orders_delivered = 2
       /\ Cardinality(Timed(Members(KeyOf(daily_rest_metrics[i])))) = 1
       /\ daily_rest_metrics[i].avg_delivery_mins = Some([n |-> 31, d |-> 1])

\* The order columns of an enriched row.
OrderPart(e) ==
  [f \in DOMAIN e \ {"r_restaurant_id", "name", "cuisine"} |-> e[f]]
CopiesIn(df, o) == Cardinality({i \in Idx(df) : df[i] = o})
EnrichedOf(o) == {k \in Idx(orders_enriched) : OrderPart(orders_enriched[k]) = o}
\* The restaurant rows whose identifier is that of order o.
RestaurantsOf(o) ==
  {j \in Idx(restaurants_silver) :
     /\ ~IsNull(o.restaurant_id)
     /\ ~IsNull(restaurants_silver[j].restaurant_id)
     /\ Val(restaurants_silver[j].restaurant_id) = Val(o.restaurant_id)}

\* C3: an order row of orders_silver whose restaurant_id is that of no
\* restaurant row (a null restaurant_id is that of none) is in
\* orders_enriched exactly as many times as it is in orders_silver, every
\* time with restaurant_id, name and cuisine of the restaurant null; and
\* every order row of orders_silver is in orders_enriched at least once.
C3_LeftJoinKeepsOrphans ==
  Enriched =>
    \A i \in Idx(orders_silver) :
      LET o == orders_silver[i] IN
      /\ EnrichedOf(o) # {}
      /\ RestaurantsOf(o) = {} =>
           /\ Cardinality(EnrichedOf(o)) = CopiesIn(orders_silver, o)
           /\ \A k \in EnrichedOf(o) :
                /\ IsNull(orders_enriched[k].r_restaurant_id)
                /\ IsNull(orders_enriched[k].name)
                /\ IsNull(orders_enriched[k].cuisine)

\* Two orphans beside a restaurant: one order with a null restaurant_id and
\* one whose restaurant_id no restaurant has.
C3_Witness ==
  /\ Enriched
  /\ restaurants_silver # <<>>
  /\ \E i, j \in Idx(orders_silver) :
       /\ IsNull(orders_silver[i].restaurant_id)
       /\ orders_silver[j].restaurant_id = Some("r9")
       /\ Cardinality(EnrichedOf(orders_silver[i])) = 1
       /\ Cardinality(EnrichedOf(orders_silver[j])) = 1

RECURSIVE TotalDelivered(_)
TotalDelivered(S) ==
  IF S = {} THEN 0
  ELSE LET i == CHOOSE x \in S : TRUE
       IN daily_rest_metrics[i].orders_delivered + TotalDelivered(S \ {i})

RECURSIVE TotalLateCount(_)
TotalLateCount(S) ==
  IF S = {} THEN 0
  ELSE LET i == CHOOSE x \in S : TRUE
       IN Val(daily_rest_metrics[i].late_count) + TotalLateCount(S \ {i})

RECURSIVE TotalGmv(_)
TotalGmv(S) ==
  IF S = {} THEN 0
  ELSE LET i == CHOOSE x \in S : TRUE
           g == daily_rest_metrics[i].gmv
       IN (IF IsNull(g) THEN 0 ELSE Val(g)) + TotalGmv(S \ {i})

\* C9: an order row whose restaurant_id is that of k >= 2 restaurant rows is
\* in orders_enriched k times for each time it is in orders_silver, once per
\* restaurant row; and the metric rows count every DELIVERED enriched row,
\* copies included: their orders_delivered add up to the number of those
\* rows, their late_count to the sum of late_delivery and their gmv to the
\* sum of order_value over those rows.
C9_JoinFanOut ==
  /\ Enriched =>
       \A i \in Idx(orders_silver) :
         LET o == orders_silver[i] IN
         Cardinality(RestaurantsOf(o)) >= 2 =>
           /\ Cardinality(EnrichedOf(o)) =
                Cardinality(RestaurantsOf(o)) * CopiesIn(orders_silver, o)
           /\ \A j \in RestaurantsOf(o) : \E k \in EnrichedOf(o) :
                /\ orders_enriched[k].name = restaurants_silver[j].name
                /\ orders_enriched[k].cuisine = restaurants_silver[j].cuisine
  /\ Aggregated =>
       /\ TotalDelivered(Idx(daily_rest_metrics)) = Cardinality(DeliveredIdx)
       /\ TotalLateCount(Idx(daily_rest_metrics)) = TotalLate(DeliveredIdx)
       /\ TotalGmv(Idx(daily_rest_metrics)) = TotalValue(Valued(DeliveredIdx))

\* One delivered order of 10.0, late, and the same restaurant row twice:
\* the order is counted twice.
C9_Witness ==
  /\ Aggregated
  /\ Len(orders_silver) = 1
  /\ Cardinality(RestaurantsOf(orders_silver[1])) = 2
  /\ Len(orders_enriched) = 2
  /\ Len(daily_rest_metrics) = 1
  /\ daily_rest_metrics[1].orders_delivered = 2
  /\ daily_rest_metrics[1].gmv = Some(200)
  /\ daily_rest_metrics[1].late_count = Some(2)

IngestDone ==
  pc \in {"read_silver", "enrich", "aggregate", "write_gold", "commit_gold"}
OrdersWritten ==
  IngestDone \/ pc \in {"write_silver_restaurants", "commit_silver_restaurants"}
SameRows(a, b) ==
  \A v \in {a[i] : i \in Idx(a)} \cup {b[i] : i \in Idx(b)} :
    CopiesIn(a, v) = CopiesIn(b, v)

\* C5: once Ingest & Normalize of a run has written both silver artifacts,
\* in the first run and in every later one, silver/orders holds the
\* normalized rows of that run's bronze orders and silver/restaurants the
\* rows of its bronze restaurants, each as often as the input has it and
\* nothing else: no row a previous run wrote is left or doubled, so a second
\* run on the same input leaves what the first one left.
C5_IngestIdempotent ==
  IngestDone =>
    /\ SameRows(StoredRows(silverOrders), Normalize(bronzeOrders))
    /\ SameRows(silverRestaurants, bronzeRestaurants)

\* The second run has written silver from the bronze files of the first one
\* (a one-row orders file is the initial one: upstream only adds rows).
C5_Witness ==
  /\ run = 2
  /\ pc = "read_silver"
  /\ Len(bronzeOrders) = 1
  /\ Len(StoredRows(silverOrders)) = 1
  /\ Len(silverRestaurants) = 2

\* Stored row s is bronze row r with its four typed columns cast, a column
\* that does not parse null, and dt null when order_ts does not parse.
RowOf(r, s) ==
  /\ s.status = r.status
  /\ s.restaurant_id = r.restaurant_id
  /\ s.city = r.city
  /\ s.order_ts = to_timestamp(r.order_ts)
  /\ s.delivered_ts = to_timestamp(r.delivered_ts)
  /\ s.order_value = CastDouble(r.order_value)
  /\ s.promised_mins = CastInt(r.promised_mins)
  /\ IsNull(to_timestamp(r.order_ts)) => IsNull(s.dt)

\* C6: when silver/orders is written it has as many rows as the bronze
\* orders; every bronze row has its stored row (as many as the bronze rows
\* equal to it), in which an order_ts, delivered_ts, order_value or
\* promised_mins that does not parse is null; and the row of an order_ts
\* that does not parse is stored under the null dt partition.
C6_NoRowRejected ==
  OrdersWritten =>
    LET stored == StoredRows(silverOrders) IN
    /\ Len(stored) = Len(bronzeOrders)
    /\ \A i \in Idx(bronzeOrders) :
         /\ Cardinality({k \in Idx(stored) : RowOf(bronzeOrders[i], stored[k])})
              >= CopiesIn(bronzeOrders, bronzeOrders[i])
         /\ IsNull(to_timestamp(bronzeOrders[i].order_ts)) =>
              /\ NULL \in DOMAIN silverOrders
              /\ \E k \in Idx(silverOrders[NULL]) :
                   RowOf(bronzeOrders[i], WithDt(silverOrders[NULL][k], NULL))

\* Two bronze rows, one of which has no field that parses: it is stored,
\* all nulls, under the null partition, beside the dated row.
C6_Witness ==
  /\ OrdersWritten
  /\ Len(bronzeOrders) = 2
  /\ Cardinality(DOMAIN silverOrders) = 2
  /\ NULL \in DOMAIN silverOrders
  /\ \E k \in Idx(silverOrders[NULL]) :
       /\ IsNull(silverOrders[NULL][k].order_ts)
       /\ IsNull(silverOrders[NULL][k].delivered_ts)
       /\ IsNull(silverOrders[NULL][k].order_value)
       /\ IsNull(silverOrders[NULL][k].promised_mins)

AfterRead == pc \in {"enrich", "aggregate", "write_gold", "commit_gold", "done"}
SilverComplete ==
  /\ silverOrders = PartitionBy(orders)
  /\ silverRestaurants = restaurants

\* C7: in every state after the script has read silver, both silver writes
\* are complete and orders_silver and restaurants_silver are what silver
\* holds; orders_enriched and daily_rest_metrics are computed from those;
\* silver is read only when both writes are complete; silver changes only
\* in the two silver writes and gold only in the gold write, which comes
\* after the read.
C7_StagesInOrder ==
  /\ [](AfterRead =>
          /\ SilverComplete
          /\ orders_silver = StoredRows(silverOrders)
          /\ restaurants_silver = silverRestaurants)
  /\ [](Enriched =>
          orders_enriched = LeftJoin(StoredRows(silverOrders), silverRestaurants))
  /\ [](Aggregated => daily_rest_metrics = Aggregate(orders_enriched))
  /\ [][/\ (pc = "read_silver" /\ pc' = "enrich") =>
             SilverComplete /\ pending = {}
        /\ goldMetrics' # goldMetrics => pc \in {"write_gold", "commit_gold"}
        /\ silverOrders' # silverOrders =>
             pc \in {"write_silver_orders", "commit_silver_orders"}
        /\ silverRestaurants' # silverRestaurants =>
             pc \in {"write_silver_restaurants", "commit_silver_restaurants"}
       ]_vars

\* A finished run over two partitions of orders that wrote gold.
C7_Witness ==
  /\ pc = "done"
  /\ Cardinality(DOMAIN silverOrders) = 2
  /\ Len(orders_silver) = 2
  /\ Len(restaurants_silver) = 2
  /\ goldMetrics # EmptyStore
  /\ goldMetrics = PartitionBy(daily_rest_metrics)

\* C10: an overwrite is a delete followed by the publication of the new
\* files, and every state between the two is visible to a reader.  While
\* silver/orders is being written it holds the partitions published so far
\* and lacks the pending ones, so it is not the run's complete content, and
\* it is empty when none is published; the same holds of gold; and
\* silver/restaurants is empty from its delete to its publication.
C10_OverwriteNotAtomic ==
  /\ pc = "commit_silver_orders" =>
       /\ pending # {}
       /\ DOMAIN silverOrders = DOMAIN PartitionBy(orders) \ pending
       /\ silverOrders # PartitionBy(orders)
       /\ pending = DOMAIN PartitionBy(orders) => silverOrders = EmptyStore
  /\ pc = "commit_silver_restaurants" => silverRestaurants = <<>>
  /\ pc = "commit_gold" =>
       /\ pending # {}
       /\ DOMAIN goldMetrics = DOMAIN PartitionBy(daily_rest_metrics) \ pending
       /\ goldMetrics # PartitionBy(daily_rest_metrics)
       /\ pending = DOMAIN PartitionBy(daily_rest_metrics) =>
            goldMetrics = EmptyStore

\* In the second run, silver/restaurants is empty though the previous run
\* left two rows there and this run writes two; silver/orders already holds
\* this run's rows; and gold still holds the previous run's rows, which are
\* not the metrics of the orders now in silver.
C10_Witness ==
  /\ run = 2
  /\ pc = "commit_silver_restaurants"
  /\ silverRestaurants = <<>>
  /\ Len(restaurants) = 2
  /\ silverOrders = PartitionBy(orders)
  /\ goldMetrics # EmptyStore
  /\ goldMetrics #
       PartitionBy(Aggregate(LeftJoin(StoredRows(silverOrders), restaurants)))

====
